---- MODULE Spec2Model ----
(***************************************************************************)
(* State-machine model of tensorboard/notebook.py: the launch reconciler   *)
(* start(), the instance selector _display()/display(), the listing        *)
(* list(), and the formatting helpers they use.  The process supervisor    *)
(* (tensorboard.manager) is the environment: it owns the discovery record  *)
(* `records`, answers get_all() and produces the result of start().        *)
(***************************************************************************)
EXTENDS Integers, Sequences, FiniteSets, TLC

VARIABLES
  records,       \* the supervisor's discovery record: a set of TensorboardInfo
  context,       \* what _get_context() answers in this session
  pc,            \* "idle", "display_max" (inside a port-less _display), "done"
  op,            \* the entry point of the call in progress or just finished
  port,          \* _display: the local `port`
  height,        \* _display: the local `height`
  infos,         \* _display / list: the local `infos`
  info,          \* _display: the local `info`
  start_result,  \* start: the local `start_result`
  now,           \* the clock reading used by _time_delta_from_info in this call
  trace,         \* what the call did, in order: calls made, prints, displays, updates
  result,        \* how the call ended: "returned" or the exception raised
  changes,       \* supervisor changes made while the call was in progress
  lastSel        \* the previous port-less selection, while `records` is unchanged

vars == <<records, context, pc, op, port, height, infos, info, start_result,
          now, trace, result, changes, lastSel>>

----------------------------------------------------------------------------
(* Bounds of the model *)

MaxRecords == 3      \* discovery records that exist at the same time
TicksPerSec == 2     \* clock ticks per second (sub-second resolution)
MaxChanges == 1      \* supervisor changes while one _display call is in progress

----------------------------------------------------------------------------
(* Values *)

None == -1           \* Python's None, where an int is expected

_CONTEXT_COLAB == "_CONTEXT_COLAB"
_CONTEXT_IPYTHON == "_CONTEXT_IPYTHON"
_CONTEXT_NONE == "_CONTEXT_NONE"
Contexts == {_CONTEXT_COLAB, _CONTEXT_IPYTHON, _CONTEXT_NONE}

Ports == {6006, 6007}
Times == {0, 1}                \* clock readings at which a server started
Nows == {1, 1 + TicksPerSec}   \* clock readings at which this module is called
Heights == {None, 400}
ExitCodes == {1, 2}

\* A server process: its pid and the data source it was started with
\* (exactly one of db / logdir is non-empty).
Procs == { [pid |-> 11, db |-> "", logdir |-> "/tmp/logs"],
           [pid |-> 12, db |-> "sqlite:x.db", logdir |-> ""] }
Pids == { p.pid : p \in Procs }

\* manager.TensorboardInfo, the fields notebook.py reads.
Infos == { [port |-> pt, pid |-> p.pid, start_time |-> t, db |-> p.db, logdir |-> p.logdir] :
             pt \in Ports, p \in Procs, t \in Times }
NoInfo == [port |-> None, pid |-> None, start_time |-> None, db |-> "", logdir |-> ""]

\* A captured stream of StartFailed: None, or a string (a sequence of
\* characters): empty, blank, and text with white space around it.
Texts == { <<>>, <<" ">>, <<"x">>, <<" ", "x", "\n">> }
NoneStream == [isNone |-> TRUE, text |-> <<>>]
Streams == {NoneStream} \cup { [isNone |-> FALSE, text |-> s] : s \in Texts }

\* The values manager.start can return, and one value that is none of them.
NoResult == [type |-> "", info |-> NoInfo, exit_code |-> None,
             stdout |-> NoneStream, stderr |-> NoneStream, pid |-> None]
StartLaunched(i) == [NoResult EXCEPT !.type = "StartLaunched", !.info = i]
StartReused(i) == [NoResult EXCEPT !.type = "StartReused", !.info = i]
StartFailed(ec, out, err) ==
  [NoResult EXCEPT !.type = "StartFailed", !.exit_code = ec, !.stdout = out, !.stderr = err]
StartTimedOut(p) == [NoResult EXCEPT !.type = "StartTimedOut", !.pid = p]
Unexpected == [NoResult EXCEPT !.type = "object"]

Range(s) == { s[i] : i \in DOMAIN s }

\* manager.get_all(): every known record, each once, in an order that the
\* supervisor does not promise (it is unordered with respect to start_time).
RECURSIVE Orders(_)
Orders(S) == IF S = {} THEN {<<>>} ELSE UNION { { <<x>> \o t : t \in Orders(S \ {x}) } : x \in S }
GetAll(S) == Orders(S)

----------------------------------------------------------------------------
(* The trace of a call *)

Ev(ev, what, text, h) == [ev |-> ev, what |-> what, text |-> text, height |-> h]
Called(fn, args) == Ev("call", fn, args, None)
Printed(message) == Ev("print", "str", message, None)

\* "%d" % n
Fmt_d(n) == ToString(n)

----------------------------------------------------------------------------
(* Formatting helpers *)

Pad2(n) == IF n < 10 THEN <<"0", ToString(n)>> ELSE <<ToString(n)>>

\* str(datetime.timedelta(seconds=s)) for s >= 0
TimedeltaStr(s) ==
  LET days == s \div 86400
      rest == s % 86400
  IN  (IF days = 0 THEN <<>>
       ELSE <<ToString(days), IF days = 1 THEN " day, " ELSE " days, ">>)
      \o <<ToString(rest \div 3600), ":">> \o Pad2((rest % 3600) \div 60)
      \o <<":">> \o Pad2(rest % 60)

\* datetime.replace(microsecond=0): whole seconds of a clock reading
WholeSeconds(t) == t \div TicksPerSec

_time_delta_from_info(i, n) ==
  TimedeltaStr(WholeSeconds(n) - WholeSeconds(i.start_time))

_data_source_from_info(i) ==
  IF i.db # "" THEN <<"db ", i.db>> ELSE <<"logdir ", i.logdir>>

----------------------------------------------------------------------------
(* Rendering dispatch *)

NoHandle == "None"
StatusHandle == "DisplayHandle"

Url(p) == <<"http://localhost:", Fmt_d(p)>>

_display_colab(p, h, display_handle) ==
  [trace |-> <<Called("_display_colab", <<Fmt_d(p)>>)>>,
   result |-> "NotImplementedError"]

_display_ipython(p, h, display_handle) ==
  [trace |-> <<Called("_display_ipython", <<Fmt_d(p)>>),
               IF display_handle # NoHandle
                 THEN Ev("update", "IFrame", Url(p), h)
                 ELSE Ev("display", "IFrame", Url(p), h)>>,
   result |-> "returned"]

_display_cli(p, h, display_handle) ==
  [trace |-> <<Called("_display_cli", <<Fmt_d(p)>>),
               Printed(<<"Please navigate to ">> \o Url(p) \o <<" in a web browser.">>)>>,
   result |-> "returned"]

Dispatch(ctx, p, h, display_handle) ==
  CASE ctx = _CONTEXT_COLAB -> _display_colab(p, h, display_handle)
    [] ctx = _CONTEXT_IPYTHON -> _display_ipython(p, h, display_handle)
    [] ctx = _CONTEXT_NONE -> _display_cli(p, h, display_handle)

----------------------------------------------------------------------------
(* Instance selection: _display *)

DefaultHeight == 600

\* (mutant) the first record wins, whatever its start_time
FirstOf(seq) == seq[1]

\* Python's max(seq, key=lambda x: x.start_time) on a non-empty sequence:
\* the first element, in iteration order, whose key no other element exceeds.
MaxByStartTime(seq) ==
  LET best == { k \in DOMAIN seq : \A j \in DOMAIN seq : seq[j].start_time <= seq[k].start_time }
  IN  seq[CHOOSE k \in best : \A j \in best : k <= j]

\* The records of `all` that take part in the selection for an explicit port.
PortFilter(all, p) == SelectSeq(all, LAMBDA i : i.port = p)

\* str.format: every "{name}" of the template replaced by the argument `name`.
RECURSIVE Format(_, _)
Format(template, args) ==
  IF template = <<>> THEN <<>>
  ELSE (IF Head(template) \in DOMAIN args THEN args[Head(template)] ELSE <<Head(template)>>)
       \o Format(Tail(template), args)

SelectingTemplate ==
  <<"Selecting TensorBoard with ", "{data_source}", " (started ", "{delta}",
    " ago; port ", "{port}", ", pid ", "{pid}", ").">>

SelectingMessage(i, n) ==
  Format(SelectingTemplate,
         [a \in {"{data_source}", "{delta}", "{port}", "{pid}"} |->
            CASE a = "{data_source}" -> _data_source_from_info(i)
              [] a = "{delta}" -> _time_delta_from_info(i, n)
              [] a = "{port}" -> <<Fmt_d(i.port)>>
              [] a = "{pid}" -> <<Fmt_d(i.pid)>>])

\* if print_message: ... (what is printed about the selected instance)
SelectionReport(i, print_message, n) ==
  IF print_message /\ i # NoInfo
    THEN <<Called("_data_source_from_info", <<Fmt_d(i.port)>>),
           Called("_time_delta_from_info", <<Fmt_d(i.port)>>),
           Printed(SelectingMessage(i, n))>>
    ELSE <<>>

\* _display from `if print_message:` to its end, once info and port are known.
DisplayTail(i, p, h, print_message, display_handle, ctx, n) ==
  LET r == Dispatch(ctx, p, h, display_handle)
  IN  [trace |-> SelectionReport(i, print_message, n) \o r.trace, result |-> r.result]

EffectiveHeight(h) == IF h = None THEN DefaultHeight ELSE h

\* (mutant) an explicit port without a record is refused like an empty record
DisplayPortStrict(all, p, h, print_message, display_handle, ctx, n) ==
  LET cands == PortFilter(all, p)
      i == IF cands # <<>> THEN MaxByStartTime(cands) ELSE NoInfo
      t == IF cands # <<>>
             THEN DisplayTail(i, p, EffectiveHeight(h), print_message, display_handle, ctx, n)
             ELSE [trace |-> <<>>, result |-> "ValueError: no known instances running"]
  IN  [trace |-> <<Called("_display", <<Fmt_d(p)>>), Called("get_all", <<>>)>> \o t.trace,
       result |-> t.result,
       infos |-> cands, info |-> i, port |-> p, height |-> EffectiveHeight(h)]

\* _display with an explicit port; `all` is what manager.get_all() answers.
DisplayPort(all, p, h, print_message, display_handle, ctx, n) ==
  LET cands == PortFilter(all, p)
      i == IF cands # <<>> THEN MaxByStartTime(cands) ELSE NoInfo
      t == DisplayTail(i, p, EffectiveHeight(h), print_message, display_handle, ctx, n)
  IN  [trace |-> <<Called("_display", <<Fmt_d(p)>>), Called("get_all", <<>>)>> \o t.trace,
       result |-> t.result,
       infos |-> cands, info |-> i, port |-> p, height |-> EffectiveHeight(h)]

----------------------------------------------------------------------------
(* Launch reconciliation: start *)

Launching == <<"Launching TensorBoard...">>

\* The status display issued before the launch, and the handle kept for it.
StartHandle(ctx) == IF ctx = _CONTEXT_NONE THEN NoHandle ELSE StatusHandle

StartPrologue(ctx) ==
  IF ctx = _CONTEXT_NONE
    THEN <<Printed(Launching)>>
    ELSE <<Ev("display_id", "Pretty", Launching, None)>>

print_or_update(handle, message) ==
  IF handle = NoHandle THEN Printed(message) ELSE Ev("update", "Pretty", message, None)

IsSpace(c) == c \in {" ", "\n", "\t"}

\* str.strip()
RECURSIVE LStrip(_)
LStrip(s) == IF s # <<>> /\ IsSpace(Head(s)) THEN LStrip(Tail(s)) ELSE s
RECURSIVE RStrip(_)
RStrip(s) == IF s # <<>> /\ IsSpace(s[Len(s)]) THEN RStrip(SubSeq(s, 1, Len(s) - 1)) ELSE s
Strip(s) == RStrip(LStrip(s))

\* (mutant) `if not value` in place of `if value == ""`
format_stream_falsy(name, value) ==
  IF value.isNone \/ value.text = <<>> THEN <<>>
  ELSE <<"\nContents of ", name, ":\n">> \o Strip(value.text)

format_stream(name, value) ==
  IF ~value.isNone /\ value.text = <<>> THEN <<>>
  ELSE IF value.isNone THEN <<"\n<could not read ", name, ">">>
  ELSE <<"\nContents of ", name, ":\n">> \o Strip(value.text)

FailedMessage(sr) ==
  <<"ERROR: Failed to launch TensorBoard (exited with ", Fmt_d(sr.exit_code), ").">>
  \o format_stream("stderr", sr.stderr)
  \o format_stream("stdout", sr.stdout)

TimedOutMessage(sr) ==
  <<"ERROR: Timed out waiting for TensorBoard to start. ",
    "It may still be running as pid ", Fmt_d(sr.pid), ".">>

\* (mutant) the status line without the kill hint
ReusedTemplateNoHint ==
  <<"Reusing TensorBoard on port ", "{port}", " (pid ", "{pid}", "), started ", "{delta}",
    " ago.">>

ReusedTemplate ==
  <<"Reusing TensorBoard on port ", "{port}", " (pid ", "{pid}", "), started ", "{delta}",
    " ago. ", "(Use '!kill ", "{pid}", "' to kill it.)">>

ReusedMessage(i, n) ==
  Format(ReusedTemplate,
         [a \in {"{port}", "{pid}", "{delta}"} |->
            CASE a = "{port}" -> <<Fmt_d(i.port)>>
              [] a = "{pid}" -> <<Fmt_d(i.pid)>>
              [] a = "{delta}" -> _time_delta_from_info(i, n)])

\* The branches of start, each from the isinstance test that selects it.
OnLaunched(sr, handle, all, ctx, n) ==
  DisplayPort(all, sr.info.port, None, FALSE, handle, ctx, n)

\* (mutant) the render of a reused instance goes into the status display too
OnReusedSharingHandle(sr, handle, all, ctx, n) ==
  LET d == DisplayPort(all, sr.info.port, None, FALSE, handle, ctx, n)
  IN  [d EXCEPT !.trace = <<Called("_time_delta_from_info", <<Fmt_d(sr.info.port)>>),
                            print_or_update(handle, ReusedMessage(sr.info, n))>> \o d.trace]

OnReused(sr, handle, all, ctx, n) ==
  LET d == DisplayPort(all, sr.info.port, None, FALSE, NoHandle, ctx, n)
  IN  [d EXCEPT !.trace = <<Called("_time_delta_from_info", <<Fmt_d(sr.info.port)>>),
                            print_or_update(handle, ReusedMessage(sr.info, n))>> \o d.trace]

NoDisplay(tr, res) ==
  [trace |-> tr, result |-> res, infos |-> <<>>, info |-> NoInfo, port |-> None, height |-> None]

OnFailed(sr, handle) == NoDisplay(<<print_or_update(handle, FailedMessage(sr))>>, "returned")

\* (mutant) the timeout branch goes on to render, as the success branches do
OnTimedOutThenDisplay(sr, handle) ==
  LET d == DisplayPort(CHOOSE a \in GetAll(records) : TRUE, sr.pid, None, FALSE,
                       handle, context, None)
  IN  [d EXCEPT !.trace = <<print_or_update(handle, TimedOutMessage(sr))>> \o d.trace]

OnTimedOut(sr, handle) == NoDisplay(<<print_or_update(handle, TimedOutMessage(sr))>>, "returned")

\* (mutant) an unrecognised result is passed over in silence
OnUnexpectedIgnored(sr, handle) == NoDisplay(<<>>, "returned")

OnUnexpected(sr, handle) == NoDisplay(<<>>, "TypeError")

\* start(args_string), given what manager.start and manager.get_all answer.
start(ctx, sr, all, n) ==
  LET handle == StartHandle(ctx)
      b == CASE sr.type = "StartLaunched" -> OnLaunched(sr, handle, all, ctx, n)
             [] sr.type = "StartReused" -> OnReused(sr, handle, all, ctx, n)
             [] sr.type = "StartFailed" -> OnFailed(sr, handle)
             [] sr.type = "StartTimedOut" -> OnTimedOut(sr, handle)
             [] OTHER -> OnUnexpected(sr, handle)
  IN  [b EXCEPT !.trace = StartPrologue(ctx) \o <<Called("manager.start", <<>>)>> \o b.trace]

----------------------------------------------------------------------------
(* Listing: list *)

ListTemplate ==
  <<"  - port ", "{port}", ": ", "{data_source}", " (started ", "{delta}", " ago; pid ",
    "{pid}", ")">>

ListLine(i, n) ==
  Format(ListTemplate,
         [a \in {"{data_source}", "{delta}", "{port}", "{pid}"} |->
            CASE a = "{data_source}" -> _data_source_from_info(i)
              [] a = "{delta}" -> _time_delta_from_info(i, n)
              [] a = "{port}" -> <<Fmt_d(i.port)>>
              [] a = "{pid}" -> <<Fmt_d(i.pid)>>])

\* (mutant) one line per port: a record is passed over when a later one has its port
RECURSIVE ListLoopOnePerPort(_, _)
ListLoopOnePerPort(all, n) ==
  IF all = <<>> THEN <<>>
  ELSE (IF \E k \in DOMAIN Tail(all) : Tail(all)[k].port = Head(all).port
          THEN <<>>
          ELSE <<Called("_data_source_from_info", <<Fmt_d(Head(all).port)>>),
                 Called("_time_delta_from_info", <<Fmt_d(Head(all).port)>>),
                 Printed(ListLine(Head(all), n))>>)
       \o ListLoopOnePerPort(Tail(all), n)

\* for info in infos: print(template.format(...))
RECURSIVE ListLoop(_, _)
ListLoop(all, n) ==
  IF all = <<>> THEN <<>>
  ELSE <<Called("_data_source_from_info", <<Fmt_d(Head(all).port)>>),
         Called("_time_delta_from_info", <<Fmt_d(Head(all).port)>>),
         Printed(ListLine(Head(all), n))>>
       \o ListLoop(Tail(all), n)

list(all, n) ==
  IF all = <<>>
    THEN [trace |-> <<Called("get_all", <<>>),
                      Printed(<<"No known TensorBoard instances running.">>)>>,
          result |-> "returned"]
    ELSE [trace |-> <<Called("get_all", <<>>), Printed(<<"Known TensorBoard instances:">>)>>
                    \o ListLoop(all, n),
          result |-> "returned"]

----------------------------------------------------------------------------
(* Port-less _display: two queries of the supervisor *)

NoKnownInstances == "ValueError: no known instances running"
MaxOfEmpty == "ValueError: max() arg is an empty sequence"

\* infos = manager.get_all(); if not infos: raise ValueError(...)
DisplayNoneQuery(all, h) ==
  [trace |-> <<Called("_display", <<"None">>), Called("get_all", <<>>)>>,
   result |-> IF all = <<>> THEN NoKnownInstances ELSE "none",
   infos |-> all, info |-> NoInfo, port |-> None, height |-> EffectiveHeight(h)]

\* info = max(manager.get_all(), key=...); port = info.port; and the rest of _display
DisplayNoneMax(all, first, h, print_message, display_handle, ctx, n) ==
  IF all = <<>>
    THEN [trace |-> <<Called("get_all", <<>>)>>, result |-> MaxOfEmpty,
          infos |-> first, info |-> NoInfo, port |-> None, height |-> h]
    ELSE LET i == MaxByStartTime(all)
             t == DisplayTail(i, i.port, h, print_message, display_handle, ctx, n)
         IN  [trace |-> <<Called("get_all", <<>>)>> \o t.trace, result |-> t.result,
              infos |-> first, info |-> i, port |-> i.port, height |-> h]

----------------------------------------------------------------------------
(* The state machine *)

ClockRead(tr) == \E k \in DOMAIN tr : tr[k].what = "_time_delta_from_info"

Init ==
  /\ records = {}
  /\ context \in Contexts
  /\ pc = "idle"
  /\ op = "none"
  /\ port = None
  /\ height = None
  /\ infos = <<>>
  /\ info = NoInfo
  /\ start_result = NoResult
  /\ now = None
  /\ trace = <<>>
  /\ result = "none"
  /\ changes = 0
  /\ lastSel = NoInfo

\* The call `name` has had effect e and is, if e has a result, over.
Finish(name, e, n) ==
  /\ pc' = IF e.result = "none" THEN "display_max" ELSE "done"
  /\ op' = name
  /\ trace' = e.trace
  /\ result' = e.result
  /\ infos' = e.infos
  /\ info' = e.info
  /\ port' = e.port
  /\ height' = e.height
  /\ now' = IF ClockRead(e.trace) THEN n ELSE None

\* start(args_string) when manager.start answers sr and leaves the record
\* recs; a branch that goes on to _display queries the record, and the
\* StartReused branch reads the clock.
StartWith(sr, recs) ==
  /\ pc = "idle"
  /\ \E n \in (IF sr.type = "StartReused" THEN Nows ELSE {None}),
        all \in (IF sr.type \in {"StartLaunched", "StartReused"} THEN GetAll(recs) ELSE {<<>>}) :
       Finish("start", start(context, sr, all, n), n)
  /\ records' = recs
  /\ start_result' = sr
  /\ changes' = 0
  /\ lastSel' = IF recs = records THEN lastSel ELSE NoInfo
  /\ UNCHANGED context

StartOnLaunched ==
  /\ Cardinality(records) < MaxRecords
  /\ \E i \in Infos \ records : StartWith(StartLaunched(i), records \cup {i})

StartOnReused ==
  /\ records # {}
  /\ \E i \in records : StartWith(StartReused(i), records)

StartOnFailed ==
  /\ pc = "idle"
  /\ \E ec \in ExitCodes, out \in Streams, err \in Streams :
    StartWith(StartFailed(ec, out, err), records)

StartOnTimedOut ==
  /\ pc = "idle"
  /\ \E p \in Pids : StartWith(StartTimedOut(p), records)

StartOnUnexpected ==
  /\ pc = "idle"
  /\ StartWith(Unexpected, records)

\* display(port=p, height=h)
DisplayGivenPort ==
  /\ pc = "idle"
  /\ \E p \in Ports, h \in Heights, n \in Nows, all \in GetAll(records) :
       Finish("display(port)", DisplayPort(all, p, h, TRUE, NoHandle, context, n), n)
  /\ changes' = 0
  /\ UNCHANGED <<records, context, start_result, lastSel>>

\* display(port=None, height=h), up to the emptiness check
DisplayQuery ==
  /\ pc = "idle"
  /\ \E h \in Heights, all \in GetAll(records) :
       Finish("display()", DisplayNoneQuery(all, h), None)
  /\ changes' = 0
  /\ UNCHANGED <<records, context, start_result, lastSel>>

\* display(port=None, height=h), from the second query to the end
DisplayMax ==
  /\ pc = "display_max"
  /\ \E n \in Nows, all \in GetAll(records) :
       LET e == DisplayNoneMax(all, infos, height, TRUE, NoHandle, context, n)
       IN  Finish("display()", [e EXCEPT !.trace = trace \o e.trace], n)
  /\ UNCHANGED <<records, context, start_result, changes, lastSel>>

\* list()
List ==
  /\ pc = "idle"
  /\ \E n \in Nows, all \in GetAll(records) :
       LET e == list(all, n)
       IN  Finish("list", [trace |-> e.trace, result |-> e.result, infos |-> all,
                           info |-> NoInfo, port |-> None, height |-> None], n)
  /\ changes' = 0
  /\ UNCHANGED <<records, context, start_result, lastSel>>

\* The call is over: its locals are gone.
Forget ==
  /\ pc = "done"
  /\ pc' = "idle"
  /\ op' = "none"
  /\ port' = None
  /\ height' = None
  /\ infos' = <<>>
  /\ info' = NoInfo
  /\ start_result' = NoResult
  /\ now' = None
  /\ trace' = <<>>
  /\ result' = "none"
  /\ changes' = 0
  /\ UNCHANGED <<records, context>>

Return ==
  /\ Forget
  /\ UNCHANGED lastSel

\* As Return, and the caller keeps the outcome of a port-less selection for
\* as long as the discovery record stays as it is.
ReturnAndRemember ==
  /\ Forget
  /\ lastSel' = IF op = "display()" /\ info # NoInfo THEN info ELSE lastSel

\* The supervisor (or another process using it) changes the discovery record.
SupervisorChange(recs) ==
  /\ records' = recs
  /\ changes' = IF pc = "idle" THEN 0 ELSE changes + 1
  /\ lastSel' = NoInfo
  /\ UNCHANGED <<context, pc, op, port, height, infos, info, start_result, now, trace, result>>

\* ... between two calls of this module
SupervisorAdd ==
  /\ pc = "idle"
  /\ Cardinality(records) < MaxRecords
  /\ \E i \in Infos \ records : SupervisorChange(records \cup {i})

SupervisorRemove ==
  /\ pc = "idle"
  /\ \E i \in records : SupervisorChange(records \ {i})

\* ... between the two queries of a port-less _display
SupervisorAddDuring ==
  /\ pc = "display_max"
  /\ changes < MaxChanges
  /\ Cardinality(records) < MaxRecords
  /\ \E i \in Infos \ records : SupervisorChange(records \cup {i})

SupervisorRemoveDuring ==
  /\ pc = "display_max"
  /\ changes < MaxChanges
  /\ \E i \in records : SupervisorChange(records \ {i})

Next ==
  \/ StartOnLaunched
  \/ StartOnReused
  \/ StartOnFailed
  \/ StartOnTimedOut
  \/ StartOnUnexpected
  \/ DisplayGivenPort
  \/ DisplayQuery
  \/ DisplayMax
  \/ List
  \/ Return
  \/ SupervisorAdd
  \/ SupervisorRemove

Spec == Init /\ [][Next]_vars

\* The same program, observed by a caller that compares successive selections.
NextRepeated ==
  \/ StartOnLaunched
  \/ StartOnReused
  \/ StartOnFailed
  \/ StartOnTimedOut
  \/ StartOnUnexpected
  \/ DisplayGivenPort
  \/ DisplayQuery
  \/ DisplayMax
  \/ List
  \/ ReturnAndRemember
  \/ SupervisorAdd
  \/ SupervisorRemove

SpecRepeated == Init /\ [][NextRepeated]_vars

\* The same program, with the supervisor at work while a call is in progress.
NextConcurrent ==
  \/ Next
  \/ SupervisorAddDuring
  \/ SupervisorRemoveDuring

SpecConcurrent == Init /\ [][NextConcurrent]_vars

----------------------------------------------------------------------------
(* Reading a finished call *)

RenderFns == {"_display", "_display_cli", "_display_ipython", "_display_colab"}
FormatFns == {"_data_source_from_info", "_time_delta_from_info"}

CallsTo(fns) == { k \in DOMAIN trace : trace[k].ev = "call" /\ trace[k].what \in fns }
Outputs == { k \in DOMAIN trace : trace[k].ev \in {"print", "update", "display", "display_id"} }
Updates == { k \in DOMAIN trace : trace[k].ev = "update" }

\* The outputs of start that come after manager.start has answered.
OutcomeOutputs == { k \in Outputs : \E c \in CallsTo({"manager.start"}) : c < k }

\* Token b directly follows token a somewhere in message m.
HasPair(m, a, b) == \E k \in 1..(Len(m) - 1) : m[k] = a /\ m[k + 1] = b
Has(m, a) == \E k \in DOMAIN m : m[k] = a

StartDone(types) == pc = "done" /\ op = "start" /\ start_result.type \in types

FailedHead == "ERROR: Failed to launch TensorBoard (exited with "
TimedOutHead == "ERROR: Timed out waiting for TensorBoard to start. "
ReusedHead == "Reusing TensorBoard on port "

----------------------------------------------------------------------------
\* C1: when manager.start answers StartFailed or StartTimedOut, in every
\* context, start calls no rendering function and makes no get_all query,
\* emits exactly one message after the launch, the error message (with the
\* exit code for StartFailed, the pid for StartTimedOut), and returns normally.
C1_FailureEmitsOneErrorAndNoRender ==
  StartDone({"StartFailed", "StartTimedOut"}) =>
    /\ result = "returned"
    /\ CallsTo(RenderFns \cup {"get_all"}) = {}
    /\ Cardinality(OutcomeOutputs) = 1
    /\ \A k \in OutcomeOutputs :
         /\ trace[k].ev = (IF context = _CONTEXT_NONE THEN "print" ELSE "update")
         /\ IF start_result.type = "StartFailed"
              THEN HasPair(trace[k].text, FailedHead, ToString(start_result.exit_code))
              ELSE /\ trace[k].text[1] = TimedOutHead
                   /\ HasPair(trace[k].text, "It may still be running as pid ",
                              ToString(start_result.pid))

C1_Witness ==
  /\ StartDone({"StartTimedOut"})
  /\ context = _CONTEXT_COLAB
  /\ records # {}

----------------------------------------------------------------------------
(* The status line of a reused instance *)

\* The first output after manager.start has answered, and where it is.
StatusIndex == CHOOSE k \in OutcomeOutputs : \A j \in OutcomeOutputs : k <= j
StatusLine == trace[StatusIndex].text

\* How a duration of fewer than ten seconds reads.
ShortElapsed(secs) == <<"0", ":", "0", "0", ":", "0", ToString(secs)>>

ElapsedOf(i) == ShortElapsed((now \div TicksPerSec) - (i.start_time \div TicksPerSec))

\* Message m holds the tokens of part, in order and adjacent.
HasPart(m, part) ==
  \E k \in 0..(Len(m) - Len(part)) : \A j \in DOMAIN part : m[k + j] = part[j]

DataSourceOf(i) == IF i.db # "" THEN <<"db ", i.db>> ELSE <<"logdir ", i.logdir>>

\* The parts of the status line other than the data source, and the order
\* of status line and render.
ReusedStatusParts ==
  /\ OutcomeOutputs # {}
  /\ StatusLine[1] = ReusedHead
  /\ HasPair(StatusLine, ReusedHead, ToString(start_result.info.port))
  /\ HasPair(StatusLine, " (pid ", ToString(start_result.info.pid))
  /\ HasPair(StatusLine, "), started ", "0") /\ HasPart(StatusLine, ElapsedOf(start_result.info))
  /\ HasPair(StatusLine, "(Use '!kill ", ToString(start_result.info.pid))
  /\ \E r \in CallsTo(RenderFns \ {"_display"}) :
       /\ StatusIndex < r
       /\ trace[r].text = <<ToString(start_result.info.port)>>

\* C2 (as claimed): for StartReused, the status line emitted before
\* rendering holds the instance's data source description (db or logdir),
\* the elapsed time, the port, the pid and the kill hint, and the render of
\* the instance's port comes after it.
C2_ReusedStatusHasFiveParts ==
  StartDone({"StartReused"}) =>
    /\ ReusedStatusParts
    /\ HasPart(StatusLine, DataSourceOf(start_result.info))

\* C2 (amended): for StartReused, the status line emitted before rendering
\* holds the elapsed time, the port, the pid and the kill hint, but no data
\* source description: neither the db nor the logdir of the instance occurs
\* in it. The render of the instance's port comes after it.
C2_ReusedStatusHasFourParts ==
  StartDone({"StartReused"}) =>
    /\ ReusedStatusParts
    /\ ~Has(StatusLine, start_result.info.db)
    /\ ~Has(StatusLine, start_result.info.logdir)
    /\ ~Has(StatusLine, "db ") /\ ~Has(StatusLine, "logdir ")

C2_Witness ==
  /\ StartDone({"StartReused"})
  /\ start_result.info.db # ""
  /\ context = _CONTEXT_IPYTHON
  /\ now \div TicksPerSec > start_result.info.start_time \div TicksPerSec

----------------------------------------------------------------------------
\* C3: when manager.start answers a value that is none of StartLaunched,
\* StartReused, StartFailed, StartTimedOut, start ends by raising TypeError:
\* after the launch it emits nothing and calls no rendering function, and no
\* branch of the four variants has run.
C3_UnexpectedResultIsFatal ==
  (pc = "done" /\ op = "start"
     /\ start_result.type \notin {"StartLaunched", "StartReused", "StartFailed", "StartTimedOut"}) =>
    /\ result = "TypeError"
    /\ OutcomeOutputs = {}
    /\ CallsTo(RenderFns \cup FormatFns \cup {"get_all"}) = {}
    /\ Len(trace) = 2

C3_Witness ==
  /\ pc = "done" /\ op = "start"
  /\ start_result = Unexpected
  /\ result = "TypeError"
  /\ context = _CONTEXT_IPYTHON

----------------------------------------------------------------------------
(* Selection *)

OnPort(p) == { r \in records : r.port = p }
Latest(S) == { r \in S : \A q \in S : q.start_time <= r.start_time }

\* _display was entered with an explicit port / without one, and is over.
ExplicitDone ==
  \/ pc = "done" /\ op = "display(port)"
  \/ StartDone({"StartLaunched", "StartReused"})
PortlessSelected ==
  pc = "done" /\ op = "display()" /\ result \in {"returned", "NotImplementedError"}

RenderedPorts == { trace[k].text : k \in CallsTo(RenderFns \ {"_display"}) }

\* C4: _display selects a record of maximum start_time among the candidates.
\* Without a port the candidates are all known records, and the port rendered
\* is the selected record's; with an explicit port the candidates are exactly
\* the records on that port, and the selected record is on that port however
\* late a record on another port started.
C4_SelectsLatestCandidate ==
  /\ PortlessSelected =>
       /\ info \in Latest(records)
       /\ port = info.port
       /\ RenderedPorts = {<<ToString(info.port)>>}
  /\ ExplicitDone =>
       /\ Range(infos) = OnPort(port)
       /\ Len(infos) = Cardinality(OnPort(port))
       /\ IF OnPort(port) = {} THEN info = NoInfo ELSE info \in Latest(OnPort(port))
       /\ RenderedPorts = {<<ToString(port)>>}

C4_Witness ==
  /\ pc = "done" /\ op = "display(port)"
  /\ info # NoInfo
  /\ Cardinality(OnPort(port)) = 2
  /\ \E r \in records : r.port # port /\ r.start_time > info.start_time

----------------------------------------------------------------------------
\* C5: with no candidate record, the outcome depends on whether a port was
\* given. display(port=p) with no record on port p raises nothing from the
\* selection, prints no "Selecting" message and dispatches a render of port
\* p; display(port=None) with no known record raises the "no known
\* instances" failure, dispatches no render and prints nothing.
C5_NoCandidate ==
  /\ (pc = "done" /\ op = "display(port)" /\ OnPort(port) = {}) =>
       /\ result = (IF context = _CONTEXT_COLAB THEN "NotImplementedError" ELSE "returned")
       /\ info = NoInfo
       /\ \A k \in Outputs : trace[k].text[1] # "Selecting TensorBoard with "
       /\ CallsTo(FormatFns) = {}
       /\ RenderedPorts = {<<ToString(port)>>}
  /\ (pc = "done" /\ op = "display()" /\ records = {}) =>
       /\ result = NoKnownInstances
       /\ CallsTo(RenderFns \ {"_display"}) = {}
       /\ Outputs = {}

C5_Witness ==
  /\ pc = "done" /\ op = "display(port)"
  /\ records # {}
  /\ OnPort(port) = {}
  /\ context = _CONTEXT_NONE

----------------------------------------------------------------------------
\* C6: port-less selection is idempotent: two port-less selections with the
\* discovery record unchanged between them select the same record, also
\* when several records share the latest start_time and get_all answers in
\* another order the second time.
C6_RepeatedSelectionAgrees ==
  (PortlessSelected /\ lastSel # NoInfo) => info = lastSel

----------------------------------------------------------------------------
(* The status display of start *)

FourOutcomes == {"StartLaunched", "StartReused", "StartFailed", "StartTimedOut"}

\* What the display issued for "Launching TensorBoard..." shows in the end.
LastUpdate == CHOOSE k \in Updates : \A j \in Updates : j <= k
HandleContent == IF Updates = {} THEN Launching ELSE trace[LastUpdate].text

\* The update of the handle is the outcome's output.
OutcomeUpdate(k) ==
  CASE start_result.type = "StartLaunched" ->
         /\ trace[k].what = "IFrame"
         /\ trace[k].text = <<"http://localhost:", ToString(start_result.info.port)>>
    [] start_result.type = "StartReused" ->
         trace[k].what = "Pretty" /\ trace[k].text[1] = ReusedHead
    [] start_result.type = "StartFailed" ->
         trace[k].what = "Pretty" /\ trace[k].text[1] = FailedHead
    [] start_result.type = "StartTimedOut" ->
         trace[k].what = "Pretty" /\ trace[k].text[1] = TimedOutHead

\* The outcome messages emitted, by whatever means.
OutcomeMessages ==
  { k \in OutcomeOutputs : trace[k].text[1] \in {ReusedHead, FailedHead, TimedOutHead} }

EachMessageOnce ==
  /\ Cardinality(OutcomeMessages) = (IF start_result.type = "StartLaunched" THEN 0 ELSE 1)
  /\ \A k \in OutcomeMessages :
       trace[k].text[1] = (CASE start_result.type = "StartReused" -> ReusedHead
                             [] start_result.type = "StartFailed" -> FailedHead
                             [] start_result.type = "StartTimedOut" -> TimedOutHead
                             [] OTHER -> "")

UpdatedOnceWithOutcome ==
  /\ Cardinality(Updates) = 1
  /\ \A k \in Updates : OutcomeUpdate(k)
  /\ HandleContent # Launching

\* C7 (as claimed): in every context in which start issued a status display
\* (IPython or Colab), after any of the four outcomes the display has been
\* updated in place exactly once, with the outcome's output, so that
\* "Launching TensorBoard..." is not what it shows in the end; and every
\* outcome message is emitted exactly once.
C7_StatusDisplayUpdatedOnce ==
  StartDone(FourOutcomes) =>
    /\ EachMessageOnce
    /\ context # _CONTEXT_NONE => UpdatedOnceWithOutcome

\* C7 (amended): the same, except for StartLaunched in the Colab context:
\* there _display_colab raises NotImplementedError before any update, start
\* ends with that exception and the display still shows "Launching
\* TensorBoard...".
C7_StatusDisplayUpdatedOnceUnlessColabLaunch ==
  StartDone(FourOutcomes) =>
    /\ EachMessageOnce
    /\ (context # _CONTEXT_NONE
          /\ ~(context = _CONTEXT_COLAB /\ start_result.type = "StartLaunched"))
         => UpdatedOnceWithOutcome
    /\ (context = _CONTEXT_COLAB /\ start_result.type = "StartLaunched")
         => /\ Updates = {}
            /\ HandleContent = Launching
            /\ result = "NotImplementedError"

C7_Witness ==
  /\ StartDone({"StartReused"})
  /\ context = _CONTEXT_IPYTHON
  /\ result = "returned"
  /\ Cardinality(Outputs) = 3

----------------------------------------------------------------------------
(* The message of a failed launch *)

FailedText == trace[StatusIndex].text

Unreadable(m, name) == HasPair(m, "\n<could not read ", name)
Section(m, name) == HasPair(m, "\nContents of ", name)

\* C8: in the StartFailed message each captured stream is handled on its
\* own: an empty string adds nothing, None adds a "could not read <name>"
\* notice, any other value adds a "Contents of <name>" section; so an empty
\* and an unreadable stream read differently; the exit code is always there.
C8_StreamsThreeWay ==
  StartDone({"StartFailed"}) =>
    /\ FailedText[1] = FailedHead
    /\ FailedText[2] = ToString(start_result.exit_code)
    /\ \A name \in {"stdout", "stderr"} :
         LET v == start_result[name]
         IN  CASE v.isNone ->
                    Unreadable(FailedText, name) /\ ~Section(FailedText, name)
               [] ~v.isNone /\ v.text = <<>> ->
                    ~Has(FailedText, name)
               [] OTHER ->
                    Section(FailedText, name) /\ ~Unreadable(FailedText, name)

C8_Witness ==
  /\ StartDone({"StartFailed"})
  /\ start_result.stdout = [isNone |-> FALSE, text |-> <<>>]
  /\ start_result.stderr = NoneStream
  /\ Len(FailedText) = 6

----------------------------------------------------------------------------
(* The listing *)

Lines == { k \in Outputs : trace[k].text[1] = "  - port " }

\* The k-th line printed, counted from 1.
NthLine(n) == CHOOSE k \in Lines : Cardinality({ j \in Lines : j <= k }) = n

\* C9: list never fails and selects nothing. With no known record it prints
\* one "no known instances" message and formats nothing; otherwise it prints
\* one line for each record get_all answered, in the order of the answer,
\* records on the same port included.
C9_ListPrintsEveryRecord ==
  (pc = "done" /\ op = "list") =>
    /\ result = "returned"
    /\ info = NoInfo
    /\ Range(infos) = records /\ Len(infos) = Cardinality(records)
    /\ CallsTo(RenderFns) = {}
    /\ records = {} =>
         /\ Cardinality(Outputs) = 1
         /\ \A k \in Outputs : trace[k].text = <<"No known TensorBoard instances running.">>
         /\ CallsTo(FormatFns) = {}
    /\ records # {} =>
         /\ Cardinality(Lines) = Len(infos)
         /\ \A n \in DOMAIN infos :
              /\ HasPair(trace[NthLine(n)].text, "  - port ", ToString(infos[n].port))
              /\ HasPair(trace[NthLine(n)].text, " ago; pid ", ToString(infos[n].pid))
              /\ HasPart(trace[NthLine(n)].text, DataSourceOf(infos[n]))
              /\ HasPart(trace[NthLine(n)].text, ElapsedOf(infos[n]))

C9_Witness ==
  /\ pc = "done" /\ op = "list"
  /\ Len(infos) = 3
  /\ infos[1].port = infos[3].port
  /\ infos[1].start_time > infos[2].start_time

----------------------------------------------------------------------------
\* C10: a port-less _display is atomic with respect to the discovery record:
\* whatever the supervisor does while the call is in progress, the selected
\* record is a latest record of the set the emptiness check saw, and the
\* call fails in the selection only with "no known instances", when that
\* set was empty.
C10_PortlessDisplayAtomic ==
  (pc = "done" /\ op = "display()") =>
    IF infos = <<>>
      THEN result = NoKnownInstances
      ELSE /\ result \in {"returned", "NotImplementedError"}
           /\ info \in Latest(Range(infos))

====
